---- MODULE Spec2Model ----
(***************************************************************************)
(* Subtitle composition engine of the Arabic subtitle burner:              *)
(* SubtitleRenderer.apply_subtitles (windowing of cues against the render  *)
(* bound), SubtitleRenderer.create_subtitle_clip (layers of one cue) and   *)
(* SubtitleRenderer.get_subtitle_position (glyph anchor), as driven by     *)
(* VideoProcessor.create_preview and VideoProcessor.export_final_video.    *)
(*                                                                         *)
(* Times are integers in one fixed unit (a tenth of a second in the        *)
(* scenarios); the code only adds, compares and clamps them.  Opacities    *)
(* are integers in twentieths (OpacityScale), the denominator of the       *)
(* code's shadow_blur / 20.0.  The Arabic option strings of the settings   *)
(* are named by their English meaning: "top" is the code's 'أعلى',          *)
(* "center" is 'وسط', "bottom" is 'أسفل', "left" is 'يسار', "right" is       *)
(* 'يمين'.                                                                  *)
(***************************************************************************)
EXTENDS Integers, Sequences, FiniteSets, TLC

VARIABLES
    subtitles_data,    \* the cue list handed to the run (list of dicts)
    settings,          \* the settings dict (a function on the keys present)
    video,             \* the opened VideoFileClip: [w, h, duration]
    preview_duration,  \* create_preview's preview_duration argument
    mode,              \* "none" | "preview" | "export": the last run
    failing,           \* cue indices whose styled layer build raised in the last run
    subtitle_clips,    \* apply_subtitles' subtitle_clips: the layers composited over the video
    discarded,         \* per emitted cue, create_subtitle_clip's local clips_to_composite
    audio_file,        \* duration of the audio file at audio_path; 0 when there is none
    fault,             \* the step of the next handler call at which a collaborator raises
    run,               \* what the last create_preview / export_final_video call left behind
    adjusted,          \* what the last adjust_audio_to_video call returned or raised
    inflight,          \* the invocations inside write_videofile: kind, output, temporary files
    subtitle_file,     \* the subtitle file handed to the parser
    parsed,            \* what the last parse_subtitle_file call returned or raised
    srt_content,       \* the SRT text the editor last exported, as entries
    subtitle_text,     \* the string handed to the text processor
    max_width,         \* max_width / max_chars_per_line; 0 stands for None
    shaper,            \* for which texts arabic_reshaper.reshape raises
    split_lines,       \* what the last split_long_text call returned
    formatted,         \* what the last format_subtitle_text call returned or raised
    target_resolution, \* export_final_video's target_resolution; 0 stands for None
    resized_clip       \* <<the clip derived from the video by the export's resize step or by trim_video>>, or <<>>

vars == <<subtitles_data, settings, video, preview_duration, mode, failing,
          subtitle_clips, discarded, audio_file, fault, run, adjusted,
          inflight, subtitle_file, parsed, srt_content, subtitle_text,
          max_width, shaper, split_lines, formatted, target_resolution, resized_clip>>

\* The state of the parser, the editor's export and the overlapping
\* invocations, which the composition handlers leave alone.
other_vars == <<inflight, subtitle_file, parsed, srt_content>>

\* The state of the text processor.
text_vars == <<subtitle_text, max_width, shaper, split_lines, formatted>>

----------------------------------------------------------------------------
(* Bounds of the model *)

MaxCues == 1          \* longest enumerated cue list (InitScenario adds longer ones)
MaxTime == 3          \* cue starts and ends range over 0..MaxTime
MaxDur == 2           \* video durations and preview durations range over 1..MaxDur
MaxOffset == 2        \* subtitle_offset ranges over -MaxOffset..MaxOffset
MaxMargin == 2        \* horizontal margins range over 1..MaxMargin
MaxShadow == 1        \* shadow offsets range over -MaxShadow..MaxShadow
MaxAudio == 3         \* audio durations range over 1..MaxAudio (0: no audio file)
MaxAudioOffset == 1   \* audio_offset ranges over -MaxAudioOffset..MaxAudioOffset
MaxRuns == 3          \* overlapping handler invocations are numbered 1..MaxRuns
MaxEntries == 2       \* a subtitle file holds at most MaxEntries entries
MaxHours == 1         \* edited cue times have an hours part in 0..MaxHours
MaxText == 5          \* texts handed to the text processor have at most MaxText characters
MaxWidth == 3         \* max_width and max_chars_per_line range over 0..MaxWidth
MaxSide == 6          \* small frames have width and height in 1..MaxSide pixels

TicksPerMs == 10       \* times are counted in tenths of a millisecond
TicksPerSecond == 1000 * TicksPerMs
OpacityScale == 20    \* opacities are counted in twentieths

----------------------------------------------------------------------------
(* Helpers *)

Max(a, b) == IF a >= b THEN a ELSE b

Min(a, b) == IF a <= b THEN a ELSE b

\* dict.get(key, default)
Get(d, key, default) == IF key \in DOMAIN d THEN d[key] ELSE default

\* An anchor axis is the string 'center' or a pixel count.
Center == [sym |-> TRUE, px |-> 0]

Px(n) == [sym |-> FALSE, px |-> n]

\* clip.end of a clip set up with set_start(start).set_duration(duration)
End(clip) == clip.start + clip.duration

----------------------------------------------------------------------------
(* SubtitleRenderer.get_subtitle_position *)

\* get_subtitle_position with the two margins exchanged.
get_subtitle_position_swapped(sett, video_clip) ==
    LET position_setting == Get(sett, "position", "bottom")
        alignment == Get(sett, "alignment", "center")
        margin_horizontal == Get(sett, "margin_vertical", 30)
        margin_vertical == Get(sett, "margin_horizontal", 20)
        video_width == video_clip.w
        video_height == video_clip.h
        v_pos == IF position_setting = "top" THEN Px(margin_vertical)
                 ELSE IF position_setting = "center" THEN Center
                 ELSE Px(video_height - margin_vertical)
        h_pos == IF alignment = "left" THEN Px(margin_horizontal)
                 ELSE IF alignment = "right" THEN Px(video_width - margin_horizontal)
                 ELSE Center
    IN  <<h_pos, v_pos>>

get_subtitle_position(sett, video_clip) ==
    LET position_setting == Get(sett, "position", "bottom")
        alignment == Get(sett, "alignment", "center")
        margin_horizontal == Get(sett, "margin_horizontal", 20)
        margin_vertical == Get(sett, "margin_vertical", 30)
        video_width == video_clip.w
        video_height == video_clip.h
        v_pos == IF position_setting = "top" THEN Px(margin_vertical)
                 ELSE IF position_setting = "center" THEN Center
                 ELSE Px(video_height - margin_vertical)
        h_pos == IF alignment = "left" THEN Px(margin_horizontal)
                 ELSE IF alignment = "right" THEN Px(video_width - margin_horizontal)
                 ELSE Center
    IN  <<h_pos, v_pos>>

----------------------------------------------------------------------------
(* SubtitleRenderer.create_subtitle_clip and create_background_clip *)

\* A layer (a moviepy clip): kind, the cue it was built for, timing,
\* opacity (twentieths), anchor (set by set_position; <<Center, Center>>
\* until then is never observed) and whether it carries the styled text.
Layer(kind, cue, start_time, duration, opacity, styled) ==
    [kind |-> kind, cue |-> cue, start |-> start_time, duration |-> duration,
     opacity |-> opacity, pos |-> <<Center, Center>>, styled |-> styled]

set_position(clip, position) == [clip EXCEPT !.pos = position]

create_background_clip(cue, opacity, start_time, duration) ==
    Layer("background", cue, start_time, duration, opacity, TRUE)

\* ShadowClip asking for both offsets to be non-zero.
ShadowClipBothOffsets(cue, start_time, duration, sett) ==
    LET shadow_enabled == Get(sett, "shadow_enabled", FALSE)
        shadow_offset_x == Get(sett, "shadow_offset_x", 2)
        shadow_offset_y == Get(sett, "shadow_offset_y", 2)
        shadow_blur == Get(sett, "shadow_blur", 3)
        shadow_opacity == IF shadow_blur > 0
                          THEN Max(6, OpacityScale - shadow_blur)
                          ELSE OpacityScale
    IN  IF shadow_enabled /\ (shadow_offset_x # 0 /\ shadow_offset_y # 0)
        THEN <<Layer("shadow", cue, start_time, duration, shadow_opacity, TRUE)>>
        ELSE <<>>

\* The shadow block of create_subtitle_clip: the shadow clip, or none.
\* A one-element sequence is the clip, the empty sequence is None.
ShadowClip(cue, start_time, duration, sett) ==
    LET shadow_enabled == Get(sett, "shadow_enabled", FALSE)
        shadow_offset_x == Get(sett, "shadow_offset_x", 2)
        shadow_offset_y == Get(sett, "shadow_offset_y", 2)
        shadow_blur == Get(sett, "shadow_blur", 3)
        shadow_opacity == IF shadow_blur > 0
                          THEN Max(6, OpacityScale - shadow_blur)
                          ELSE OpacityScale
    IN  IF shadow_enabled /\ (shadow_offset_x # 0 \/ shadow_offset_y # 0)
        THEN <<Layer("shadow", cue, start_time, duration, shadow_opacity, TRUE)>>
        ELSE <<>>

\* The value create_subtitle_clip returns: the text clip with the
\* attributes the code attaches to it (has_attrs is hasattr(...)), and the
\* local list clips_to_composite that the function builds and drops.
\* raises: the styled build raised, so the except branch returns the plain
\* TextClip of the raw text, which has none of the attributes.
create_subtitle_clip(cue, start_time, end_time, sett, raises) ==
    LET bg_opacity == Get(sett, "bg_opacity", 14)
        shadow_enabled == Get(sett, "shadow_enabled", FALSE)
        shadow_offset_x == Get(sett, "shadow_offset_x", 2)
        shadow_offset_y == Get(sett, "shadow_offset_y", 2)
        duration == end_time - start_time
        txt_clip == Layer("glyph", cue, start_time, duration, OpacityScale, TRUE)
        shadow_clip_ref == ShadowClip(cue, start_time, duration, sett)
        bg == IF bg_opacity > 0
              THEN <<create_background_clip(cue, bg_opacity, start_time, duration)>>
              ELSE <<>>
        clips_to_composite == shadow_clip_ref \o bg \o <<txt_clip>>
    IN  IF raises
        THEN [clip |-> Layer("glyph", cue, start_time, end_time - start_time,
                             OpacityScale, FALSE),
              has_attrs |-> FALSE, has_shadow |-> FALSE,
              shadow_offset |-> <<0, 0>>, shadow_clip |-> <<>>,
              clips_to_composite |-> <<>>]
        ELSE [clip |-> txt_clip,
              has_attrs |-> TRUE, has_shadow |-> shadow_enabled,
              shadow_offset |-> IF shadow_enabled
                                THEN <<shadow_offset_x, shadow_offset_y>>
                                ELSE <<0, 0>>,
              shadow_clip |-> shadow_clip_ref,
              clips_to_composite |-> clips_to_composite]

----------------------------------------------------------------------------
(* SubtitleRenderer.apply_subtitles *)

\* The preview pre-filter on the raw cue start.  preview_end = 0 stands
\* for None (both are falsy in the code's test).
FilterSubs(subs, preview_only, preview_end) ==
    IF preview_only /\ preview_end # 0
    THEN SelectSeq(subs, LAMBDA sub : sub.start < preview_end)
    ELSE subs

\* Window without the final end_time <= start_time test.
WindowNoDegenerate(sub, subtitle_offset, preview_only, preview_end, clip_duration) ==
    LET start_time == Max(0, sub.start + subtitle_offset)
        end_time == sub.end + subtitle_offset
        dropped == [keep |-> FALSE, start |-> 0, end |-> 0]
        Kept(e) == [keep |-> TRUE, start |-> start_time, end |-> e]
    IN  IF preview_only /\ preview_end # 0
        THEN IF start_time >= preview_end THEN dropped
             ELSE IF end_time > preview_end THEN Kept(preview_end)
             ELSE Kept(end_time)
        ELSE IF start_time >= clip_duration THEN dropped
             ELSE IF end_time > clip_duration THEN Kept(clip_duration)
             ELSE Kept(end_time)

\* Window without the cut of end_time at the clip duration in an export.
WindowNoClamp(sub, subtitle_offset, preview_only, preview_end, clip_duration) ==
    LET start_time == Max(0, sub.start + subtitle_offset)
        end_time == sub.end + subtitle_offset
        dropped == [keep |-> FALSE, start |-> 0, end |-> 0]
        Kept(e) == IF e <= start_time
                   THEN dropped
                   ELSE [keep |-> TRUE, start |-> start_time, end |-> e]
    IN  IF preview_only /\ preview_end # 0
        THEN IF start_time >= preview_end THEN dropped
             ELSE IF end_time > preview_end THEN Kept(preview_end)
             ELSE Kept(end_time)
        ELSE IF start_time >= clip_duration THEN dropped
             ELSE Kept(end_time)

\* The timing part of one loop iteration: keep is FALSE where the code
\* takes a continue.
Window(sub, subtitle_offset, preview_only, preview_end, clip_duration) ==
    LET start_time == Max(0, sub.start + subtitle_offset)
        end_time == sub.end + subtitle_offset
        dropped == [keep |-> FALSE, start |-> 0, end |-> 0]
        Kept(e) == IF e <= start_time
                   THEN dropped
                   ELSE [keep |-> TRUE, start |-> start_time, end |-> e]
    IN  IF preview_only /\ preview_end # 0
        THEN IF start_time >= preview_end THEN dropped
             ELSE IF end_time > preview_end THEN Kept(preview_end)
             ELSE Kept(end_time)
        ELSE IF start_time >= clip_duration THEN dropped
             ELSE IF end_time > clip_duration THEN Kept(clip_duration)
             ELSE Kept(end_time)

\* ShadowPos that leaves the vertical axis alone under a centred
\* horizontal axis.
ShadowPosCenterUnshifted(position, shadow_offset) ==
    IF position[1].sym
    THEN <<Center, position[2]>>
    ELSE IF position[2].sym
    THEN <<IF ~position[1].sym
           THEN Px(position[1].px + shadow_offset[1])
           ELSE position[1], Center>>
    ELSE IF ~position[1].sym /\ ~position[2].sym
    THEN <<Px(position[1].px + shadow_offset[1]),
           Px(position[2].px + shadow_offset[2])>>
    ELSE position

\* The shadow anchor computed from the glyph anchor (position is always a
\* tuple here; an axis is an int exactly when it is not 'center').
ShadowPos(position, shadow_offset) ==
    IF position[1].sym
    THEN <<Center, IF ~position[2].sym
                   THEN Px(position[2].px + shadow_offset[2])
                   ELSE position[2]>>
    ELSE IF position[2].sym
    THEN <<IF ~position[1].sym
           THEN Px(position[1].px + shadow_offset[1])
           ELSE position[1], Center>>
    ELSE IF ~position[1].sym /\ ~position[2].sym
    THEN <<Px(position[1].px + shadow_offset[1]),
           Px(position[2].px + shadow_offset[2])>>
    ELSE position

\* CueClips appending the text clip before its shadow.
CueClipsGlyphFirst(made, position) ==
    LET sub_clip == set_position(made.clip, position)
        shadow == IF made.has_attrs /\ made.has_shadow /\ made.shadow_clip # <<>>
                  THEN <<set_position(made.shadow_clip[1],
                                      ShadowPos(position, made.shadow_offset))>>
                  ELSE <<>>
    IN  <<sub_clip>> \o shadow

\* The clips one kept cue appends to subtitle_clips.
CueClips(made, position) ==
    LET sub_clip == set_position(made.clip, position)
        shadow == IF made.has_attrs /\ made.has_shadow /\ made.shadow_clip # <<>>
                  THEN <<set_position(made.shadow_clip[1],
                                      ShadowPos(position, made.shadow_offset))>>
                  ELSE <<>>
    IN  shadow \o <<sub_clip>>

\* One loop iteration: what it appends to subtitle_clips, and the local
\* list its create_subtitle_clip call dropped.
Iteration(sub, video_clip, sett, preview_only, preview_end, raising) ==
    LET subtitle_offset == Get(sett, "subtitle_offset", 0)
        win == Window(sub, subtitle_offset, preview_only, preview_end,
                      video_clip.duration)
        made == create_subtitle_clip(sub.index, win.start, win.end, sett,
                                     sub.index \in raising)
        position == get_subtitle_position(sett, video_clip)
    IN  IF win.keep
        THEN [clips |-> CueClips(made, position),
              dropped |-> <<made.clips_to_composite>>]
        ELSE [clips |-> <<>>, dropped |-> <<>>]

RECURSIVE Loop(_, _, _, _, _, _)
Loop(subs, video_clip, sett, preview_only, preview_end, raising) ==
    IF subs = <<>>
    THEN [clips |-> <<>>, dropped |-> <<>>]
    ELSE LET it == Iteration(Head(subs), video_clip, sett, preview_only,
                             preview_end, raising)
             rest == Loop(Tail(subs), video_clip, sett, preview_only,
                          preview_end, raising)
         IN  [clips |-> it.clips \o rest.clips,
              dropped |-> it.dropped \o rest.dropped]

apply_subtitles(video_clip, subs, sett, preview_only, preview_end, raising) ==
    Loop(FilterSubs(subs, preview_only, preview_end), video_clip, sett,
         preview_only, preview_end, raising)

----------------------------------------------------------------------------
(* VideoProcessor.create_preview and VideoProcessor.export_final_video:    *)
(* the part that windows and layers the subtitles.                         *)

\* The cue indices of a cue list.
Indices(subs) == {subs[i].index : i \in 1..Len(subs)}

\* An audio clip: where it starts on the timeline and how long it is.
AudioClip(d) == [start |-> 0, duration |-> d]

set_start(clip, t) == [clip EXCEPT !.start = t]

\* clip.subclipped(t_start, t_end): the start on the timeline is kept and
\* the duration becomes t_end - t_start.
subclipped(clip, t_start, t_end) == [clip EXCEPT !.duration = t_end - t_start]

\* The steps of a handler at which a collaborator can raise: opening the
\* video, apply_subtitles, opening the audio file, write_videofile before
\* it created its output, and write_videofile after it created it; and
\* "fallback": the plain TextClip in the except branch of
\* create_subtitle_clip raises for every cue whose styled build raised.
Faults == {"none", "video", "subtitles", "audio", "encode_start",
           "encode_midway", "fallback"}

\* early: the handles already closed when the consumer of the result (the
\* encode step, or the caller of trim_video) starts; reads: the handles
\* that consumer reads from.
NoRun == [outcome |-> "none", audio |-> <<>>, opened |-> {}, closed |-> {},
          files |-> {}, early |-> {}, reads |-> {}]

\* Whether apply_subtitles raises under the fault "fallback": some cue
\* that reaches create_subtitle_clip has its styled build raise, and the
\* fallback raises too, outside any try block of create_subtitle_clip.
FallbackRaises(video_clip, subs, sett, preview_only, preview_end, raising) ==
    LET filtered_subs == FilterSubs(subs, preview_only, preview_end)
    IN  \E k \in DOMAIN filtered_subs :
            /\ filtered_subs[k].index \in raising
            /\ Window(filtered_subs[k], Get(sett, "subtitle_offset", 0),
                      preview_only, preview_end, video_clip.duration).keep

\* The step at which the handler call raises.
RaisesAt(at, fallback_raises) ==
    IF at = "fallback"
    THEN (IF fallback_raises THEN "subtitles" ELSE "none")
    ELSE at

\* The cue list after an apply_subtitles call with every cue moved by the
\* offset in place.
CuesAfterRunShifted(subs, sett) ==
    [k \in DOMAIN subs |->
        [subs[k] EXCEPT !.start = @ + Get(sett, "subtitle_offset", 0),
                        !.end = @ + Get(sett, "subtitle_offset", 0)]]

\* The cue list after an apply_subtitles call: the loop reads sub['start'],
\* sub['end'] and sub['text'] into locals and writes to no cue.
CuesAfterRun(subs, sett) == subs

\* The audio block of create_preview: offset, then the cut to preview_end.
PreviewAudio(d, sett, preview_end) ==
    LET audio_offset == Get(sett, "audio_offset", 0)
        shifted == IF audio_offset # 0
                   THEN set_start(AudioClip(d), audio_offset)
                   ELSE AudioClip(d)
    IN  subclipped(shifted, 0, preview_end)

\* The audio block of export_final_video: offset, then the cut to the
\* video duration when the audio is longer.
ExportAudio(d, sett, video_duration) ==
    LET audio_offset == Get(sett, "audio_offset", 0)
        shifted == IF audio_offset # 0
                   THEN set_start(AudioClip(d), audio_offset)
                   ELSE AudioClip(d)
    IN  IF shifted.duration > video_duration
        THEN subclipped(shifted, 0, video_duration)
        ELSE shifted

\* What a handler call leaves behind.  handles: the clips it opens before
\* the audio block, in order; track: the audio it would merge; out: the
\* path write_videofile writes; at: the step that raises.
\* The cleanup lines run only after write_videofile returned; the except
\* clause closes nothing and removes nothing.
HandlerRun(handles, has_audio, track, out, at) ==
    LET audio_opened == has_audio /\ at \notin {"video", "subtitles", "audio"}
        before == IF at = "video" THEN {}
                  ELSE IF at = "subtitles" THEN handles \ {"video_with_subs"}
                  ELSE handles
        opened == before \cup (IF audio_opened THEN {"audio_clip"} ELSE {})
        raised == \/ at \in {"video", "subtitles", "encode_start", "encode_midway"}
                  \/ at = "audio" /\ has_audio
        encoding == at \notin {"video", "subtitles"} /\ ~(at = "audio" /\ has_audio)
    IN  [outcome |-> IF raised THEN "error" ELSE "ok",
         audio |-> IF audio_opened THEN <<track>> ELSE <<>>,
         opened |-> opened,
         closed |-> IF raised
                    THEN (IF audio_opened THEN {"audio_clip"} ELSE {})
                    ELSE opened,
         files |-> IF ~raised \/ at = "encode_midway" THEN {out} ELSE {},
         early |-> IF encoding /\ audio_opened THEN {"audio_clip"} ELSE {},
         reads |-> IF encoding THEN opened ELSE {}]

\* create_preview: preview_end = min(preview_duration, duration), the clip
\* handed on is video_clip.subclipped(0, preview_end).
CreatePreview ==
    \E raising \in SUBSET Indices(subtitles_data) :
        LET preview_end == Min(preview_duration, video.duration)
            video_preview == [video EXCEPT !.duration = preview_end]
            res == apply_subtitles(video_preview, subtitles_data, settings,
                                   TRUE, preview_end, raising)
            step == RaisesAt(fault, FallbackRaises(video_preview, subtitles_data, settings,
                                                   TRUE, preview_end, raising))
            reached == step \notin {"video", "subtitles"}
        IN  /\ mode' = "preview"
            /\ failing' = raising
            /\ subtitle_clips' = IF reached THEN res.clips ELSE <<>>
            /\ discarded' = IF reached THEN res.dropped ELSE <<>>
            /\ run' = HandlerRun({"video_clip", "video_preview", "video_with_subs"},
                                 audio_file > 0,
                                 PreviewAudio(audio_file, settings, preview_end),
                                 "preview.mp4", step)
            /\ subtitles_data' = CuesAfterRun(subtitles_data, settings)
            /\ UNCHANGED <<settings, video, preview_duration,
                           audio_file, fault, adjusted, other_vars, text_vars,
                           target_resolution, resized_clip>>

\* video_clip.resized(height=...): the height asked for, the width scaled
\* by the same factor and cut to a whole number of pixels.
resized(video_clip, height) ==
    [video_clip EXCEPT !.w = (video_clip.w * height) \div video_clip.h,
                       !.h = height]

\* export_final_video: the optional resize, then preview_only=False with
\* preview_end left at None.
ExportFinalVideo ==
    \E raising \in SUBSET Indices(subtitles_data) :
        LET resize == target_resolution # 0 /\ target_resolution # video.h
            new_height == IF target_resolution % 2 = 0 THEN target_resolution
                          ELSE target_resolution + 1
            video_clip == IF resize THEN resized(video, new_height) ELSE video
            res == apply_subtitles(video_clip, subtitles_data, settings,
                                   FALSE, 0, raising)
            step == RaisesAt(fault, FallbackRaises(video_clip, subtitles_data, settings,
                                                   FALSE, 0, raising))
            reached == step \notin {"video", "subtitles"}
        IN  /\ mode' = "export"
            /\ resized_clip' = IF resize /\ fault # "video" THEN <<video_clip>>
                               ELSE <<>>
            /\ failing' = raising
            /\ subtitle_clips' = IF reached THEN res.clips ELSE <<>>
            /\ discarded' = IF reached THEN res.dropped ELSE <<>>
            /\ run' = HandlerRun({"video_clip", "video_with_subs"},
                                 audio_file > 0,
                                 ExportAudio(audio_file, settings, video.duration),
                                 "output.mp4", step)
            /\ subtitles_data' = CuesAfterRun(subtitles_data, settings)
            /\ UNCHANGED <<settings, video, preview_duration,
                           audio_file, fault, adjusted, other_vars, text_vars,
                           target_resolution>>

Next == CreatePreview \/ ExportFinalVideo

----------------------------------------------------------------------------
(* AudioHandler.process_audio and AudioHandler.adjust_audio_to_video *)

\* The attributes of an audio clip object that the handlers call.
\* concatenate_audioclips is a function of the moviepy package; a clip has
\* no attribute of that name and audio_handler.py does not import it.
AudioClipMethods == {"subclip", "set_start", "volumex", "close"}

process_audio(d, sett) ==
    LET offset == Get(sett, "audio_offset", 0)
    IN  IF offset # 0 THEN set_start(AudioClip(d), offset) ELSE AudioClip(d)

\* adjust_audio_to_video for an audio file of duration d > 0.  The ratio
\* video_duration / duration > 1.5 is 2 * video_duration > 3 * duration,
\* int(video_duration / duration) is the integer quotient.
adjust_audio_to_video(d, video_duration, sett) ==
    LET processed_audio == process_audio(d, sett)
        loops_needed == (video_duration \div processed_audio.duration) + 1
        looped == [processed_audio EXCEPT
                      !.duration = loops_needed * processed_audio.duration]
        Ok(clip) == [outcome |-> "ok", clip |-> clip]
    IN  IF processed_audio.duration > video_duration
        THEN Ok(subclipped(processed_audio, 0, video_duration))
        ELSE IF processed_audio.duration < video_duration
                /\ 2 * video_duration > 3 * processed_audio.duration
        THEN IF "concatenate_audioclips" \in AudioClipMethods
             THEN Ok(subclipped(looped, 0, video_duration))
             ELSE [outcome |-> "error", clip |-> AudioClip(0)]
        ELSE Ok(processed_audio)

AdjustAudioToVideo ==
    /\ audio_file > 0
    /\ adjusted' = adjust_audio_to_video(audio_file, video.duration, settings)
    /\ UNCHANGED <<subtitles_data, settings, video, preview_duration, mode,
                   failing, subtitle_clips, discarded, audio_file, fault, run,
                   other_vars, text_vars, target_resolution, resized_clip>>

\* trim_video: opens the video, derives trimmed_clip from it with
\* subclipped(start_time, end_time), closes the video and returns the
\* derived clip, which the caller has yet to use and which reads its frames
\* through the video's reader.  Opening the video is the one step with a
\* collaborator that the fault "video" makes raise.
TrimVideo ==
    \E start_time \in 0..video.duration, end_time \in 0..video.duration :
        LET trimmed_clip == subclipped(video, start_time, end_time)
            raised == fault = "video"
        IN  /\ mode' = "trim"
            /\ failing' = {}
            /\ subtitle_clips' = <<>>
            /\ discarded' = <<>>
            /\ resized_clip' = IF raised THEN <<>> ELSE <<trimmed_clip>>
            /\ run' = IF raised
                       THEN [NoRun EXCEPT !.outcome = "error"]
                       ELSE [NoRun EXCEPT !.outcome = "ok",
                                          !.opened = {"video_clip", "trimmed_clip"},
                                          !.closed = {"video_clip"},
                                          !.early = {"video_clip"},
                                          !.reads = {"video_clip", "trimmed_clip"}]
            /\ UNCHANGED <<subtitles_data, settings, video, preview_duration,
                           audio_file, fault, adjusted, other_vars, text_vars,
                           target_resolution>>

NextMedia == CreatePreview \/ ExportFinalVideo \/ AdjustAudioToVideo \/ TrimVideo

----------------------------------------------------------------------------
(* Overlapping invocations: the files write_videofile works on *)

\* A file in the working or temporary directory.  A name derived from
\* tempfile.mktemp is fresh for each invocation (owner is the invocation);
\* a literal name is the same file for every invocation (owner 0).
Fresh(name, i) == [name |-> name, owner |-> i]
Literal(name) == [name |-> name, owner |-> 0]

\* create_preview: the preview path comes from tempfile.mktemp and
\* write_videofile is given no temp_audiofile, so the encoder derives the
\* name of its temporary audio file from the preview path.
PreviewTemps(i, has_audio) ==
    {Fresh("_preview.mp4", i)}
        \cup (IF has_audio THEN {Fresh("_preview.TEMP_audio", i)} ELSE {})

\* export_final_video: temp_audiofile = 'temp-audio.m4a', written when the
\* clip has an audio track and deleted at the end (remove_temp = True).
ExportTemps(i, has_audio) ==
    IF has_audio THEN {Literal("temp-audio.m4a")} ELSE {}

OutputNames == {"output", "final", "clip"}

\* Invocation i enters write_videofile.  Two exports in flight never name
\* the same output file (the caller's obligation).
StartEncode(i) ==
    /\ \A r \in inflight : r.id # i
    /\ \E kind \in {"preview", "export"}, has_audio \in BOOLEAN,
          out \in OutputNames :
          /\ kind = "export" => \A r \in inflight : r.output # out
          /\ inflight' = inflight \cup
                {[id |-> i, kind |-> kind,
                  output |-> IF kind = "export" THEN out ELSE "",
                  temps |-> IF kind = "export" THEN ExportTemps(i, has_audio)
                            ELSE PreviewTemps(i, has_audio)]}
    /\ UNCHANGED <<subtitles_data, settings, video, preview_duration, mode,
                   failing, subtitle_clips, discarded, audio_file, fault, run,
                   adjusted, subtitle_file, parsed, srt_content, text_vars,
                   target_resolution, resized_clip>>

\* Invocation i leaves write_videofile.
FinishEncode(i) ==
    /\ \E r \in inflight : r.id = i /\ inflight' = inflight \ {r}
    /\ UNCHANGED <<subtitles_data, settings, video, preview_duration, mode,
                   failing, subtitle_clips, discarded, audio_file, fault, run,
                   adjusted, subtitle_file, parsed, srt_content, text_vars,
                   target_resolution, resized_clip>>

NextOverlap == \E i \in 1..MaxRuns : StartEncode(i) \/ FinishEncode(i)

----------------------------------------------------------------------------
(* Inputs *)

\* A cue dict.  Its text takes no part in timing, anchors or the kinds of
\* layers built; whether its styled build raises is the run's `raising'.
Cue(i, s, e) == [index |-> i, start |-> s, end |-> e]

\* Cue lists of length n: the cue at place i carries index i, as the
\* parsers number them.  Empty cues (end = start) are included since no
\* parser rejects them; a cue with end < start takes the same path.
CueTimes == {t \in (0..MaxTime) \X (0..MaxTime) : t[1] <= t[2]}

CueLists(n) ==
    {[i \in 1..n |-> Cue(i, f[i][1], f[i][2])] : f \in [1..n -> CueTimes]}

AllCueLists == UNION {CueLists(n) : n \in 0..MaxCues}

SettingKeys ==
    {"position", "alignment", "margin_horizontal", "margin_vertical",
     "subtitle_offset", "bg_opacity", "shadow_enabled", "shadow_offset_x",
     "shadow_offset_y", "shadow_blur"}

\* A settings dict; "absent" for position, alignment or shadow_enabled
\* builds the dict without that key.
MkSettings(pos, align, mh, mv, off, bg, se, sx, sy, blur) ==
    LET full == [position |-> pos, alignment |-> align,
                 margin_horizontal |-> mh, margin_vertical |-> mv,
                 subtitle_offset |-> off, bg_opacity |-> bg,
                 shadow_enabled |-> (se = "on"), shadow_offset_x |-> sx,
                 shadow_offset_y |-> sy, shadow_blur |-> blur]
        keys == {k \in SettingKeys :
                    /\ ~(k = "position" /\ pos = "absent")
                    /\ ~(k = "alignment" /\ align = "absent")
                    /\ ~(k = "shadow_enabled" /\ se = "absent")}
    IN  [k \in keys |-> full[k]]

\* The settings the application starts with (app.py session defaults).
AppDefaults(off) == MkSettings("bottom", "right", 20, 30, off, 14, "on", 2, 2, 3)

\* Timing inputs: every cue list, offset, duration and preview duration
\* within the bounds, under the application's default style.
InitTiming ==
    /\ subtitles_data \in AllCueLists
    /\ \E off \in -MaxOffset..MaxOffset : settings = AppDefaults(off)
    /\ \E d \in 1..MaxDur : video = [w |-> 1920, h |-> 1080, duration |-> d]
    /\ preview_duration \in 1..MaxDur

\* The timing scenarios of the specification, in tenths of a second:
\* a 30 s preview of the cues (1,3), (4.5,6), (58,62), and the cue (1,3)
\* under an offset of -2 s; and a two-cue list out of time order under
\* every offset, duration and preview duration within the bounds.
InitScenario ==
    \/ /\ subtitles_data = <<Cue(1, 10, 30), Cue(2, 45, 60), Cue(3, 580, 620)>>
       /\ settings = AppDefaults(0)
       /\ video = [w |-> 1920, h |-> 1080, duration |-> 650]
       /\ preview_duration = 300
    \/ /\ subtitles_data = <<Cue(1, 10, 30)>>
       /\ settings = AppDefaults(-20)
       /\ video = [w |-> 1920, h |-> 1080, duration |-> 650]
       /\ preview_duration = 300
    \/ /\ subtitles_data = <<Cue(1, 2, 3), Cue(2, 0, 3)>>
       /\ \E off \in -MaxOffset..MaxOffset : settings = AppDefaults(off)
       /\ \E d \in 1..MaxDur : video = [w |-> 1920, h |-> 1080, duration |-> d]
       /\ preview_duration \in 1..MaxDur

StyleCues == {<<Cue(1, 0, 1), Cue(2, 1, 3)>>}

\* Frames and margins: a small frame with the margins (m, m + 1) for
\* every m within the bound, and the 1920x1080 frame with the margins 20
\* and 30.
Frames ==
    {[w |-> 8, h |-> 6, mh |-> m, mv |-> m + 1] : m \in 1..MaxMargin}
    \cup {[w |-> 1920, h |-> 1080, mh |-> 20, mv |-> 30]}

\* Shadow and background settings: with the shadow switched on, every
\* pair of offsets within the bound, with a blur of 0 and no background,
\* the default blur 3 and background 0.7, or a blur of 16 and background
\* 0.7; with the shadow off or absent, zero and non-zero offsets (they are
\* not read then), with and without background.
Shadows ==
    {[se |-> "on", sx |-> o[1], sy |-> o[2], blur |-> b[1], bg |-> b[2]] :
        o \in (-MaxShadow..MaxShadow) \X (-MaxShadow..MaxShadow),
        b \in {<<0, 0>>, <<3, 14>>, <<16, 14>>}}
    \cup {[se |-> e[1], sx |-> e[2], sy |-> e[2], blur |-> 3, bg |-> g] :
            e \in {"off", "absent"} \X {0, MaxShadow}, g \in {0, 14}}

\* Style inputs: every position, alignment, margin, shadow and background
\* setting within the bounds.
InitStyle ==
    /\ subtitles_data \in StyleCues
    /\ preview_duration = MaxDur
    /\ \E fr \in Frames :
        /\ video = [w |-> fr.w, h |-> fr.h, duration |-> MaxDur + 1]
        /\ \E pos \in {"top", "center", "bottom", "absent"},
              align \in {"left", "center", "right", "other", "absent"},
              sh \in Shadows :
            settings = MkSettings(pos, align, fr.mh, fr.mv, 0, sh.bg,
                                  sh.se, sh.sx, sh.sy, sh.blur)

NoLines == [outcome |-> "none", value |-> <<>>]
NotFormatted == [outcome |-> "none", value |-> <<>>]
NotParsed == [outcome |-> "none", parser |-> "none", cues |-> <<>>, error |-> <<>>]
NoSubtitleFile == [format |-> "srt", readable |-> TRUE, entries |-> <<>>]

\* Nothing has run yet.
NothingRun ==
    /\ mode = "none"
    /\ failing = {}
    /\ subtitle_clips = <<>>
    /\ discarded = <<>>
    /\ run = NoRun
    /\ adjusted = [outcome |-> "none", clip |-> AudioClip(0)]
    /\ inflight = {}
    /\ parsed = NotParsed
    /\ srt_content = <<>>
    /\ split_lines = NoLines
    /\ formatted = NotFormatted
    /\ resized_clip = <<>>

\* No text on hand and a working shaper.
NoText ==
    /\ subtitle_text = <<>>
    /\ max_width = 0
    /\ shaper = "ok"

\* No audio file, no subtitle file and no text on hand, no resize asked
\* for and no collaborator raising.
NoMedia ==
    /\ audio_file = 0
    /\ NoText
    /\ target_resolution = 0
    /\ fault = "none"
    /\ subtitle_file = NoSubtitleFile

Init ==
    /\ NothingRun
    /\ NoMedia
    /\ (InitTiming \/ InitScenario)

InitLayers ==
    /\ NothingRun
    /\ NoMedia
    /\ InitStyle

----------------------------------------------------------------------------
(* SubtitleRenderer.parse_srt / parse_ass / parse_vtt / parse_subtitle_file *)

\* The libraries count in milliseconds; the floats in seconds that the
\* parsers compute and the editor holds are multiples of a tenth of a
\* millisecond, TicksPerMs of them to the millisecond.

\* What pysrt hands to parse_srt for a time: a SubRipTime with its
\* hours, minutes, seconds and milliseconds components.
SubRipTime(ms) ==
    [hours |-> ms \div 3600000, minutes |-> (ms \div 60000) % 60,
     seconds |-> (ms \div 1000) % 60, milliseconds |-> ms % 1000]

time_to_seconds(time_obj) ==
    time_obj.hours * 3600 * TicksPerSecond + time_obj.minutes * 60 * TicksPerSecond
        + time_obj.seconds * TicksPerSecond + time_obj.milliseconds * TicksPerMs

\* What webvtt hands to parse_vtt for a time: the string HH:MM:SS.mmm,
\* here already split on ':', the last part being SS.mmm in milliseconds.
VttTime(ms) ==
    <<ms \div 3600000, (ms \div 60000) % 60, ms % 60000>>

\* int(hours) * 3600 + int(minutes) * 60 + float(seconds), by the number
\* of parts.
vtt_time_to_seconds(parts) ==
    IF Len(parts) = 3
    THEN parts[1] * 3600 * TicksPerSecond + parts[2] * 60 * TicksPerSecond
            + parts[3] * TicksPerMs
    ELSE IF Len(parts) = 2
    THEN parts[1] * 60 * TicksPerSecond + parts[2] * TicksPerMs
    ELSE parts[1] * TicksPerMs

\* text.replace('\n', ' ') and text.replace('\\N', ' '): the lines of an
\* entry, each a sequence of characters, with a single space in place of
\* every line break.
RECURSIVE JoinLines(_)
JoinLines(lines) ==
    IF Len(lines) = 0 THEN <<>>
    ELSE IF Len(lines) = 1 THEN lines[1]
    ELSE lines[1] \o <<" ">> \o JoinLines(Tail(lines))

\* One dict of subtitle_data.
Entry(index, start, end, text) ==
    [index |-> index, start |-> start, end |-> end, text |-> text]

\* The body of each parser's loop for the i-th entry the library yields.
SrtEntry(sub, i) ==
    Entry(sub.index, time_to_seconds(SubRipTime(sub.start)),
          time_to_seconds(SubRipTime(sub.end)), JoinLines(sub.lines))
AssEntry(sub, i) ==
    Entry(i, sub.start * TicksPerMs, sub.end * TicksPerMs, JoinLines(sub.lines))
VttEntry(caption, i) ==
    Entry(i, vtt_time_to_seconds(VttTime(caption.start)),
          vtt_time_to_seconds(VttTime(caption.end)), JoinLines(caption.lines))

Prefix == [parse_srt |-> "Error parsing SRT file",
           parse_ass |-> "Error parsing ASS file",
           parse_vtt |-> "Error parsing VTT file"]

ConvertEntry(parser, sub, i) ==
    IF parser = "parse_srt" THEN SrtEntry(sub, i)
    ELSE IF parser = "parse_ass" THEN AssEntry(sub, i)
    ELSE VttEntry(sub, i)

\* raise Exception(f"...: {str(e)}"): every parser raises the builtin
\* Exception; its message is a prefix followed by the text of the cause.
Raised(parser, message, cause) ==
    [outcome |-> "error", parser |-> parser, cues |-> <<>>,
     error |-> <<[class |-> "Exception", message |-> message, cause |-> cause]>>]
Returned(parser, cues) ==
    [outcome |-> "ok", parser |-> parser, cues |-> cues, error |-> <<>>]

\* The underlying exception: the library failing to read the file
\* (entry 0) or the conversion of the i-th entry raising.
ReadFailure == [what |-> "read", entry |-> 0]
ConversionFailure(i) == [what |-> "conversion", entry |-> i]

\* The loop of a parser keeps partial results when it fails.
RECURSIVE ParseLoopKeepsPartial(_, _, _, _)
ParseLoopKeepsPartial(parser, entries, i, subtitle_data) ==
    IF i > Len(entries) THEN Returned(parser, subtitle_data)
    ELSE IF entries[i].unconvertible
    THEN Returned(parser, subtitle_data)
    ELSE ParseLoopKeepsPartial(parser, entries, i + 1,
            Append(subtitle_data, ConvertEntry(parser, entries[i], i)))

\* The loop of a parser from the i-th entry on, subtitle_data holding the
\* dicts appended so far; an exception leaves the try block and the local
\* list is lost.
RECURSIVE ParseLoop(_, _, _, _)
ParseLoop(parser, entries, i, subtitle_data) ==
    IF i > Len(entries) THEN Returned(parser, subtitle_data)
    ELSE IF entries[i].unconvertible
    THEN Raised(parser, Prefix[parser], ConversionFailure(i))
    ELSE ParseLoop(parser, entries, i + 1,
            Append(subtitle_data, ConvertEntry(parser, entries[i], i)))

\* parse_srt, parse_ass and parse_vtt: the library reads the file, raising
\* when it cannot, and the loop converts what it yields.
ParseWith(parser, file) ==
    IF ~file.readable THEN Raised(parser, Prefix[parser], ReadFailure)
    ELSE ParseLoop(parser, file.entries, 1, <<>>)

\* The format tokens callers pass, and str.lower() on them.
FormatTokens == {"srt", "SRT", "ass", "ASS", "ssa", "Ssa", "vtt", "VTT", "sub", "txt"}
Lower == [t \in FormatTokens |->
             IF t \in {"srt", "SRT"} THEN "srt"
             ELSE IF t \in {"ass", "ASS"} THEN "ass"
             ELSE IF t \in {"ssa", "Ssa"} THEN "ssa"
             ELSE IF t \in {"vtt", "VTT"} THEN "vtt"
             ELSE t]

parse_subtitle_file(file) ==
    LET file_format == Lower[file.format]
    IN  IF file_format = "srt" THEN ParseWith("parse_srt", file)
        ELSE IF file_format \in {"ass", "ssa"} THEN ParseWith("parse_ass", file)
        ELSE IF file_format = "vtt" THEN ParseWith("parse_vtt", file)
        ELSE Raised("none", "Unsupported subtitle format", <<>>)

ParseSubtitleFile ==
    /\ parsed' = parse_subtitle_file(subtitle_file)
    /\ UNCHANGED <<subtitles_data, settings, video, preview_duration, mode,
                   failing, subtitle_clips, discarded, audio_file, fault, run,
                   adjusted, inflight, subtitle_file, srt_content, text_vars,
                   target_resolution, resized_clip>>

\* The entries a library yields for a file: start and end in
\* milliseconds, the text lines, and whether converting the entry raises.
FileEntry(index, start, end, lines, unconvertible) ==
    [index |-> index, start |-> start, end |-> end, lines |-> lines,
     unconvertible |-> unconvertible]

SampleEntries ==
    {FileEntry(1, 0, 1500, <<<<"a">>>>, FALSE),
     FileEntry(2, 3723004, 3725000, <<<<"b">>, <<"c">>>>, FALSE),
     FileEntry(3, 5000, 3000, <<<<"d">>>>, FALSE),
     FileEntry(4, 6000, 7000, <<<<"e">>>>, TRUE)}

EntryLists ==
    UNION {[1..n -> SampleEntries] : n \in 0..MaxEntries}

----------------------------------------------------------------------------
(* The editor's SRT export (app.py) and pysrt reading it back *)

\* The minutes are taken of the whole time, not of the time within the hour.
SrtTimestampMinutesOfTotal(t) ==
    [h |-> t \div (3600 * TicksPerSecond),
     m |-> t \div (60 * TicksPerSecond),
     s |-> (t % (60 * TicksPerSecond)) \div TicksPerSecond,
     ms |-> (t % TicksPerSecond) \div TicksPerMs]

\* start_h, start_m, start_s, start_ms of a time t >= 0: int() of the
\* floor division and of the fractional part times 1000.  The fields are
\* then written and read back as decimal numerals.
SrtTimestamp(t) ==
    [h |-> t \div (3600 * TicksPerSecond),
     m |-> (t % (3600 * TicksPerSecond)) \div (60 * TicksPerSecond),
     s |-> (t % (60 * TicksPerSecond)) \div TicksPerSecond,
     ms |-> (t % TicksPerSecond) \div TicksPerMs]

\* One block of srt_content: the running number, the two timestamps and
\* the text as it stands.
SrtBlock(idx, sub) ==
    [idx |-> idx, start |-> SrtTimestamp(sub.start),
     end |-> SrtTimestamp(sub.end), text |-> sub.text]

ExportSrtContent(data) == [idx \in DOMAIN data |-> SrtBlock(idx, data[idx])]

\* The lines of a text: split at every line break.
RECURSIVE SplitLines(_, _)
SplitLines(text, line) ==
    IF text = <<>> THEN <<line>>
    ELSE IF Head(text) = "\n" THEN <<line>> \o SplitLines(Tail(text), <<>>)
    ELSE SplitLines(Tail(text), Append(line, Head(text)))

\* pysrt reading a timestamp HH:MM:SS,mmm: its value in milliseconds.
SrtOrdinal(ts) == ts.h * 3600000 + ts.m * 60000 + ts.s * 1000 + ts.ms

\* The exported content saved as a file, as pysrt reads it.
SrtFile(content) ==
    [format |-> "srt", readable |-> TRUE,
     entries |-> [i \in DOMAIN content |->
                    FileEntry(content[i].idx, SrtOrdinal(content[i].start),
                              SrtOrdinal(content[i].end),
                              SplitLines(content[i].text, <<>>), FALSE)]]

\* The export button: builds srt_content from the edited cues and offers
\* it for download; the saved file is the subtitle file parsed next.
ExportSrt ==
    /\ subtitles_data # <<>>
    /\ srt_content' = ExportSrtContent(subtitles_data)
    /\ subtitle_file' = SrtFile(srt_content')
    /\ UNCHANGED <<subtitles_data, settings, video, preview_duration, mode,
                   failing, subtitle_clips, discarded, audio_file, fault, run,
                   adjusted, inflight, parsed, text_vars, target_resolution,
                   resized_clip>>

NextRoundTrip == ExportSrt \/ ParseSubtitleFile

\* Edited times: every combination of an hours, minutes, seconds and
\* milliseconds part with a remainder below the millisecond.
EditedTimes ==
    {h * 3600 * TicksPerSecond + m * 60 * TicksPerSecond + sec * TicksPerSecond
        + ms * TicksPerMs + sub :
        h \in 0..MaxHours, m \in {0, 59}, sec \in {0, 59}, ms \in {0, 999},
        sub \in {0, TicksPerMs - 1}}

\* list.index(sub): the first place holding a cue equal to sub.
IndexOf(subs, sub) ==
    CHOOSE k \in DOMAIN subs :
        subs[k] = sub /\ \A j \in DOMAIN subs : subs[j] = sub => k <= j

\* The save button of the cue shown at place i of the editor: shown only
\* when the text area or a number input differs from the cue, it writes
\* the three values to the cue at original_idx.  The number inputs have
\* no min_value and nothing compares new_end with new_start.
SaveEdit(i, new_text, new_start, new_end) ==
    LET sub == subtitles_data[i]
        original_idx == IndexOf(subtitles_data, sub)
    IN  /\ new_text # sub.text \/ new_start # sub.start \/ new_end # sub.end
        /\ subtitles_data' =
               [subtitles_data EXCEPT ![original_idx] =
                   [@ EXCEPT !.text = new_text, !.start = new_start, !.end = new_end]]
        /\ UNCHANGED <<settings, video, preview_duration, mode, failing,
                       subtitle_clips, discarded, audio_file, fault, run,
                       adjusted, other_vars, text_vars, target_resolution,
                       resized_clip>>

\* The times a number input of the editor can hold: any number, negative
\* ones included.
InputTimes == -1..MaxTime

\* The texts a text area of the editor can hold.
InputTexts == {<<"a">>, <<"b">>}

NextEdit ==
    \E i \in DOMAIN subtitles_data, new_text \in InputTexts,
       new_start \in InputTimes, new_end \in InputTimes :
        SaveEdit(i, new_text, new_start, new_end)

\* Edited texts: one line, one line with a space, two lines.
EditedTexts == {<<"a">>, <<"a", " ", "b">>, <<"a", "\n", "b">>}

----------------------------------------------------------------------------
(* ArabicTextProcessor (arabic_text.py) *)

\* A string is the sequence of its characters.  The characters of the
\* model: the Latin letter "a", the space and the line break, the tag
\* brackets, the Arabic letter alef with hamza above and, in results, the
\* bare alef and its isolated presentation form, written by their names
\* (U+0623 "ALEF_HAMZA", U+0627 "ALEF", U+FE8D "ALEF_ISOLATED").
Whitespace == {" ", "\n"}
Alefs == {"ALEF_HAMZA"}
Arabic == {"ALEF_HAMZA", "ALEF", "ALEF_ISOLATED"}

IsArabic(str) == \E k \in DOMAIN str : str[k] \in Arabic

Reverse(str) == [k \in 1..Len(str) |-> str[Len(str) + 1 - k]]

\* str.split(): the maximal runs of characters that are not whitespace.
RECURSIVE SplitWords(_, _)
SplitWords(str, word) ==
    IF str = <<>> THEN (IF word = <<>> THEN <<>> ELSE <<word>>)
    ELSE IF Head(str) \in Whitespace
    THEN (IF word = <<>> THEN <<>> ELSE <<word>>) \o SplitWords(Tail(str), <<>>)
    ELSE SplitWords(Tail(str), Append(word, Head(str)))

Words(str) == SplitWords(str, <<>>)

\* str.strip()
RECURSIVE LStrip(_)
LStrip(str) ==
    IF str # <<>> /\ Head(str) \in Whitespace THEN LStrip(Tail(str)) ELSE str

Strip(str) == Reverse(LStrip(Reverse(LStrip(str))))

\* The first position of a character in a string, 0 if there is none.
Find(str, c) ==
    IF \E k \in DOMAIN str : str[k] = c
    THEN CHOOSE k \in DOMAIN str : str[k] = c /\ \A j \in 1..(k - 1) : str[j] # c
    ELSE 0

\* re.sub(r'<[^>]+>', '', text): from the left, a '<' followed by one or
\* more characters other than '>' and then a '>' is removed; a '<' that
\* starts no such match stays.
RECURSIVE RemoveTags(_)
RemoveTags(str) ==
    IF str = <<>> THEN <<>>
    ELSE IF Head(str) = "<" /\ Find(str, ">") >= 3
    THEN RemoveTags(SubSeq(str, Find(str, ">") + 1, Len(str)))
    ELSE <<Head(str)>> \o RemoveTags(Tail(str))

\* re.sub(r'\s+', ' ', text): every run of whitespace becomes one space.
RECURSIVE CollapseWhitespace(_)
CollapseWhitespace(str) ==
    IF str = <<>> THEN <<>>
    ELSE IF Head(str) \in Whitespace
    THEN <<" ">> \o CollapseWhitespace(LStrip(str))
    ELSE <<Head(str)>> \o CollapseWhitespace(Tail(str))

\* normalize_arabic on the letters of the model: the forms of alef become
\* the bare alef.
normalize_arabic(str) ==
    [k \in DOMAIN str |-> IF str[k] \in Alefs THEN "ALEF" ELSE str[k]]

clean_text(str) ==
    normalize_arabic(Strip(CollapseWhitespace(RemoveTags(str))))

\* arabic_reshaper.reshape on the letters of the model: an alef joins no
\* following letter, so every bare alef takes its isolated form; other
\* characters stay.
reshape(str) == [k \in DOMAIN str |-> IF str[k] = "ALEF" THEN "ALEF_ISOLATED" ELSE str[k]]

\* bidi get_display for a line of one direction: a line without Arabic
\* letters is left as it is; a line of Arabic letters and neutral
\* characters comes out in reverse order with the brackets mirrored.
Mirror(c) == IF c = "<" THEN ">" ELSE IF c = ">" THEN "<" ELSE c
get_display(str) ==
    IF IsArabic(str) THEN [k \in DOMAIN str |-> Mirror(Reverse(str)[k])]
    ELSE str

\* Whether arabic_reshaper.reshape raises for a text: never, for texts
\* with an Arabic letter, or for every text.
Shapers == {"ok", "arabic", "always"}
ShapingRaises(str, shaping) ==
    \/ shaping = "always"
    \/ shaping = "arabic" /\ IsArabic(str)

\* The loop of split_long_text with the comparison < in place of <=.
RECURSIVE SplitLoopStrict(_, _, _, _)
SplitLoopStrict(words, done, current_line, max_chars_per_line) ==
    IF words = <<>>
    THEN (IF current_line # <<>> THEN Append(done, Strip(current_line)) ELSE done)
    ELSE LET word == Head(words)
         IN  IF Len(current_line) + 1 + Len(word) < max_chars_per_line
             THEN SplitLoopStrict(Tail(words), done,
                    IF current_line # <<>> THEN current_line \o <<" ">> \o word
                    ELSE word,
                    max_chars_per_line)
             ELSE SplitLoopStrict(Tail(words),
                    IF current_line # <<>> THEN Append(done, Strip(current_line))
                    ELSE done,
                    word, max_chars_per_line)

\* The loop of split_long_text over the remaining words, done being the
\* list lines so far: len(current_line + " " + word) is the length of the
\* current line plus one plus the length of the word.
RECURSIVE SplitLoop(_, _, _, _)
SplitLoop(words, done, current_line, max_chars_per_line) ==
    IF words = <<>>
    THEN (IF current_line # <<>> THEN Append(done, Strip(current_line)) ELSE done)
    ELSE LET word == Head(words)
         IN  IF Len(current_line) + 1 + Len(word) <= max_chars_per_line
             THEN SplitLoop(Tail(words), done,
                    IF current_line # <<>> THEN current_line \o <<" ">> \o word
                    ELSE word,
                    max_chars_per_line)
             ELSE SplitLoop(Tail(words),
                    IF current_line # <<>> THEN Append(done, Strip(current_line))
                    ELSE done,
                    word, max_chars_per_line)

split_long_text(str, max_chars_per_line) ==
    SplitLoop(Words(str), <<>>, <<>>, max_chars_per_line)

SplitLongText ==
    /\ split_lines' = [outcome |-> "ok",
                       value |-> split_long_text(subtitle_text, max_width)]
    /\ UNCHANGED <<subtitles_data, settings, video, preview_duration, mode,
                   failing, subtitle_clips, discarded, audio_file, fault, run,
                   adjusted, other_vars, subtitle_text, max_width, shaper,
                   formatted, target_resolution, resized_clip>>

\* process_text without its try block: the exception leaves the function.
process_text_uncaught(str, shaping) ==
    LET cleaned_text == clean_text(str)
    IN  IF ShapingRaises(cleaned_text, shaping)
        THEN [outcome |-> "error", value |-> <<>>]
        ELSE [outcome |-> "ok", value |-> get_display(reshape(cleaned_text))]

\* process_text: clean, reshape, reorder; the except branch returns the
\* text it was given.
process_text(str, shaping) ==
    LET cleaned_text == clean_text(str)
    IN  IF ShapingRaises(cleaned_text, shaping)
        THEN [outcome |-> "ok", value |-> str]
        ELSE [outcome |-> "ok", value |-> get_display(reshape(cleaned_text))]

\* "\n".join(...)
RECURSIVE JoinNewline(_)
JoinNewline(strs) ==
    IF strs = <<>> THEN <<>>
    ELSE IF Len(strs) = 1 THEN strs[1]
    ELSE strs[1] \o <<"\n">> \o JoinNewline(Tail(strs))

\* process_multiline_text: split the text as given, process each line,
\* join; an exception of a process_text call would leave the function.
process_multiline_text(str, max_chars_per_line, shaping) ==
    LET split == split_long_text(str, max_chars_per_line)
        processed_lines == [k \in DOMAIN split |-> process_text(split[k], shaping)]
    IN  IF \E k \in DOMAIN split : processed_lines[k].outcome = "error"
        THEN [outcome |-> "error", value |-> <<>>]
        ELSE [outcome |-> "ok",
              value |-> JoinNewline([k \in DOMAIN split |-> processed_lines[k].value])]

format_subtitle_text(str, width, shaping) ==
    IF width # 0 THEN process_multiline_text(str, width, shaping)
    ELSE process_text(str, shaping)

FormatSubtitleText ==
    /\ formatted' = format_subtitle_text(subtitle_text, max_width, shaper)
    /\ UNCHANGED <<subtitles_data, settings, video, preview_duration, mode,
                   failing, subtitle_clips, discarded, audio_file, fault, run,
                   adjusted, other_vars, subtitle_text, max_width, shaper,
                   split_lines, target_resolution, resized_clip>>

\* All strings over an alphabet up to the bound.
Strings(alphabet) == UNION {[1..n -> alphabet] : n \in 0..MaxText}

\* Longer texts: two short words before a long one, and a tag with an
\* attribute between two words.
SampleTexts ==
    {<<"a", " ", "a", " ", "a", "a", "a", "a">>,
     <<"a", " ", "<", "a", " ", "a", ">", " ", "a">>}

\* The texts handed to the processor: Latin texts with tag brackets and
\* spaces, Arabic texts with spaces, and the longer samples.
Texts ==
    Strings({"a", " ", "<", ">"}) \cup Strings({"ALEF_HAMZA", " "})
        \cup SampleTexts

\* The settings dict with an audio_offset entry.
WithAudioOffset(sett, off) ==
    [k \in DOMAIN sett \cup {"audio_offset"} |->
        IF k = "audio_offset" THEN off ELSE sett[k]]

\* Media inputs: an audio file of every duration within the bound (or
\* none), every audio offset, video and preview duration within the
\* bounds, and every step at which a collaborator can raise.
InitMedia ==
    /\ NothingRun
    /\ NoText
    /\ target_resolution = 0
    /\ subtitles_data \in {<<>>, <<Cue(1, 0, 1)>>, <<Cue(1, 0, 1), Cue(2, 1, 3)>>}
    /\ \E off \in -MaxAudioOffset..MaxAudioOffset :
          settings = WithAudioOffset(AppDefaults(0), off)
    /\ \E d \in 1..MaxDur : video = [w |-> 1920, h |-> 1080, duration |-> d]
    /\ preview_duration \in 1..MaxDur
    /\ audio_file \in 0..MaxAudio
    /\ fault \in Faults
    /\ subtitle_file = NoSubtitleFile

\* A subtitle file of every format token, readable or not, with every
\* list of entries within the bound.
InitParse ==
    /\ mode = "none"
    /\ failing = {}
    /\ subtitle_clips = <<>>
    /\ discarded = <<>>
    /\ run = NoRun
    /\ adjusted = [outcome |-> "none", clip |-> AudioClip(0)]
    /\ inflight = {}
    /\ parsed = NotParsed
    /\ srt_content = <<>>
    /\ split_lines = NoLines
    /\ formatted = NotFormatted
    /\ resized_clip = <<>>
    /\ NoText
    /\ target_resolution = 0
    /\ audio_file = 0
    /\ fault = "none"
    /\ subtitles_data = <<>>
    /\ settings = AppDefaults(0)
    /\ video = [w |-> 1920, h |-> 1080, duration |-> 1]
    /\ preview_duration = 1
    /\ \E format \in FormatTokens, readable \in BOOLEAN, entries \in EntryLists :
          subtitle_file = [format |-> format, readable |-> readable,
                           entries |-> entries]

\* The editor holding one cue with any edited times and text, or two cues.
InitRoundTrip ==
    /\ NothingRun
    /\ NoMedia
    /\ settings = AppDefaults(0)
    /\ video = [w |-> 1920, h |-> 1080, duration |-> 1]
    /\ preview_duration = 1
    /\ \/ \E start \in EditedTimes, end \in EditedTimes, text \in EditedTexts :
             subtitles_data = <<Entry(1, start, end, text)>>
       \/ \E t \in EditedTimes :
             subtitles_data = <<Entry(7, t, t + TicksPerSecond, <<"a">>),
                                Entry(9, t + TicksPerSecond + 1,
                                      t + 2 * TicksPerSecond, <<"b">>)>>

\* The editor holding one or two cues that end after they start.
InitEdit ==
    /\ NothingRun
    /\ NoMedia
    /\ settings = AppDefaults(0)
    /\ video = [w |-> 1920, h |-> 1080, duration |-> 1]
    /\ preview_duration = 1
    /\ \E start \in 0..MaxTime, end \in 0..MaxTime, text \in InputTexts :
          /\ end > start
          /\ subtitles_data \in {<<Entry(1, start, end, text)>>,
                                 <<Entry(1, start, end, text),
                                   Entry(2, end, end + 1, <<"a">>)>>}

\* Nothing but the text processor is in use.
TextOnly ==
    /\ NothingRun
    /\ audio_file = 0
    /\ fault = "none"
    /\ subtitle_file = NoSubtitleFile
    /\ target_resolution = 0
    /\ subtitles_data = <<>>
    /\ settings = AppDefaults(0)
    /\ video = [w |-> 1920, h |-> 1080, duration |-> 1]
    /\ preview_duration = 1

\* Every text and every line width within the bounds.
InitWrap ==
    /\ TextOnly
    /\ subtitle_text \in Texts
    /\ max_width \in 0..MaxWidth
    /\ shaper = "ok"

\* Every text, every line width (0: none) and every behaviour of the
\* shaper within the bounds.
InitFormat ==
    /\ TextOnly
    /\ subtitle_text \in Texts
    /\ max_width \in 0..MaxWidth
    /\ shaper \in Shapers

\* Overlapping invocations on one video, none encoding yet.
InitOverlap ==
    /\ NothingRun
    /\ NoMedia
    /\ subtitles_data = <<Cue(1, 0, 1)>>
    /\ settings = AppDefaults(0)
    /\ video = [w |-> 1920, h |-> 1080, duration |-> 1]
    /\ preview_duration = 1

\* Timing runs.
Spec == Init /\ [][Next]_vars

\* Style runs.
SpecLayers == InitLayers /\ [][Next]_vars

\* Runs with an audio file and failing collaborators.
SpecMedia == InitMedia /\ [][NextMedia]_vars

\* Runs of overlapping invocations.
SpecOverlap == InitOverlap /\ [][NextOverlap]_vars

\* Runs of the parser.
NextParse == ParseSubtitleFile
SpecParse == InitParse /\ [][NextParse]_vars

\* Runs of split_long_text.
NextWrap == SplitLongText
SpecWrap == InitWrap /\ [][NextWrap]_vars

\* Runs of format_subtitle_text.
NextFormat == FormatSubtitleText
SpecFormat == InitFormat /\ [][NextFormat]_vars

\* The target heights the export screen offers (app.py resolution_mapping;
\* 0 stands for None, the original resolution).
ResolutionMapping == {0, 2160, 1080, 720, 480}

\* Frame sizes of common sources.
SampleFrames == {<<1920, 1080>>, <<1280, 720>>, <<854, 480>>, <<640, 360>>}

\* Exports with a target height: every small frame with every small
\* target height, and the sample frames with the heights the export
\* screen offers; no subtitles, no audio, no collaborator raising.
InitResize ==
    /\ NothingRun
    /\ NoText
    /\ subtitles_data = <<>>
    /\ settings = AppDefaults(0)
    /\ preview_duration = 1
    /\ audio_file = 0
    /\ fault = "none"
    /\ subtitle_file = NoSubtitleFile
    /\ \/ /\ \E w \in 1..MaxSide, h \in 1..MaxSide :
                video = [w |-> w, h |-> h, duration |-> 1]
          /\ target_resolution \in 0..MaxSide
       \/ /\ \E f \in SampleFrames :
                video = [w |-> f[1], h |-> f[2], duration |-> 1]
          /\ target_resolution \in ResolutionMapping

\* Runs of export_final_video with a target height.
NextResize == ExportFinalVideo
SpecResize == InitResize /\ [][NextResize]_vars

\* Runs of the editor's save button.
SpecEdit == InitEdit /\ [][NextEdit]_vars

\* Runs of the editor's export followed by a parse of the exported file.
SpecRoundTrip == InitRoundTrip /\ [][NextRoundTrip]_vars

----------------------------------------------------------------------------
(* What the properties read off the state of the last run *)

\* The render bound of the last run: preview_end in a preview, the clip
\* duration in an export.
Bound == IF mode = "preview" THEN Min(preview_duration, video.duration)
         ELSE video.duration

Offset == Get(settings, "subtitle_offset", 0)

\* The places in the composited list of the layers of one kind of a cue.
LayersOf(c, kind) ==
    {i \in DOMAIN subtitle_clips :
        subtitle_clips[i].cue = c /\ subtitle_clips[i].kind = kind}

Emitted(c) == LayersOf(c, "glyph") # {}

Cues == {subtitles_data[i] : i \in DOMAIN subtitles_data}

Has(key, value) == key \in DOMAIN settings /\ settings[key] = value

\* A cue is emitted exactly when its offset and clamped interval within
\* the bound B is not empty, and then with exactly that interval.
WindowedExactly(B) ==
    \A c \in Cues :
        LET s == Max(0, c.start + Offset)
            e == Min(c.end + Offset, B)
        IN  /\ Emitted(c.index) <=> (s < B /\ e > s)
            /\ \A i \in LayersOf(c.index, "glyph") :
                  /\ subtitle_clips[i].start = s
                  /\ End(subtitle_clips[i]) = e

----------------------------------------------------------------------------
(* Properties *)

\* C1: every layer handed to the compositor satisfies
\* 0 <= start < end <= B, where B is preview_end in a preview and the
\* video duration in an export, for every cue list and signed offset.
C1_LayersWithinBound ==
    mode # "none" =>
        \A i \in DOMAIN subtitle_clips :
            /\ 0 <= subtitle_clips[i].start
            /\ subtitle_clips[i].start < End(subtitle_clips[i])
            /\ End(subtitle_clips[i]) <= Bound

\* C1 witness: a preview under a positive offset in which a cue that
\* overran the bound was cut at it.
C1_Witness ==
    /\ mode = "preview"
    /\ Offset > 0
    /\ \E c \in Cues :
          /\ c.end + Offset > Bound
          /\ \E i \in LayersOf(c.index, "glyph") : End(subtitle_clips[i]) = Bound

\* C2 (as claimed): a preview with horizon H drops exactly the cues whose
\* offset-adjusted start max(0, start+offset) is >= H and the degenerate
\* ones, and a cue straddling H ends at H.
C2_PreviewDropsByAdjustedStart ==
    mode = "preview" => WindowedExactly(Bound)

\* C3: an export of a clip of duration D emits a cue if and only if
\* max(0, start+offset) < D and min(end+offset, D) > max(0, start+offset),
\* with exactly the interval (max(0, start+offset), min(end+offset, D)).
C3_ExportWindow ==
    mode = "export" => WindowedExactly(video.duration)

\* C3 witness: an export under a negative offset with one cue moved to
\* start at 0 and cut at the clip duration, and another cue dropped.
C3_Witness ==
    /\ mode = "export"
    /\ Offset < 0
    /\ \E c \in Cues :
          /\ c.start + Offset < 0
          /\ c.end + Offset > video.duration
          /\ \E i \in LayersOf(c.index, "glyph") :
                /\ subtitle_clips[i].start = 0
                /\ End(subtitle_clips[i]) = video.duration
    /\ \E c \in Cues : c.end > c.start /\ ~Emitted(c.index)

\* C4 (as claimed): a cue whose start a negative offset pushes below zero
\* is kept whenever end+offset > 0, starting at 0 and ending at end+offset
\* (cut at the bound).
C4_NegativeOffsetKept ==
    mode # "none" =>
        \A c \in Cues :
            (c.start + Offset < 0 /\ c.end + Offset > 0) =>
                \E i \in LayersOf(c.index, "glyph") :
                    /\ subtitle_clips[i].start = 0
                    /\ End(subtitle_clips[i]) = Min(c.end + Offset, Bound)

\* The layers of the composited list.
Clip(i) == subtitle_clips[i]

MarginH == Get(settings, "margin_horizontal", 20)

MarginV == Get(settings, "margin_vertical", 30)

ShadowRequested ==
    /\ Get(settings, "shadow_enabled", FALSE)
    /\ \/ Get(settings, "shadow_offset_x", 2) # 0
       \/ Get(settings, "shadow_offset_y", 2) # 0

\* C5: with explicit settings the glyph anchor (h, v) is: top ->
\* v = margin_vertical, center -> v = 'center', bottom ->
\* v = video_height - margin_vertical; left -> h = margin_horizontal,
\* right -> h = video_width - margin_horizontal, center -> h = 'center';
\* bottom/right with margins 20/30 on 1920x1080 gives (1900, 1050).
C5_PositionTable ==
    mode # "none" =>
        \A i \in DOMAIN subtitle_clips :
            Clip(i).kind = "glyph" =>
                /\ Has("position", "top") => Clip(i).pos[2] = Px(MarginV)
                /\ Has("position", "center") => Clip(i).pos[2] = Center
                /\ Has("position", "bottom") => Clip(i).pos[2] = Px(video.h - MarginV)
                /\ Has("alignment", "left") => Clip(i).pos[1] = Px(MarginH)
                /\ Has("alignment", "right") => Clip(i).pos[1] = Px(video.w - MarginH)
                /\ Has("alignment", "center") => Clip(i).pos[1] = Center
                /\ ( /\ Has("position", "bottom") /\ Has("alignment", "right")
                     /\ MarginH = 20 /\ MarginV = 30
                     /\ video.w = 1920 /\ video.h = 1080 )
                   => Clip(i).pos = <<Px(1900), Px(1050)>>

\* C5 witness: a glyph layer anchored at (1900, 1050) under bottom/right
\* with margins 20/30 on a 1920x1080 frame.
C5_Witness ==
    /\ mode # "none"
    /\ Has("position", "bottom") /\ Has("alignment", "right")
    /\ MarginH = 20 /\ MarginV = 30 /\ video.w = 1920 /\ video.h = 1080
    /\ \E i \in DOMAIN subtitle_clips :
          Clip(i).kind = "glyph" /\ Clip(i).pos = <<Px(1900), Px(1050)>>

\* C6 (as claimed): when the alignment setting is absent, or is neither
\* left nor center, the glyph's horizontal anchor is
\* video_width - margin_horizontal.
C6_RightIsDefault ==
    mode # "none" =>
        \A i \in DOMAIN subtitle_clips :
            ( /\ Clip(i).kind = "glyph"
              /\ ~Has("alignment", "left") /\ ~Has("alignment", "center") )
            => Clip(i).pos[1] = Px(video.w - MarginH)

\* C7 (as claimed): for every emitted cue the composited list holds a
\* background-plate layer of opacity bg_opacity with the cue's start and
\* end and the glyph's anchor when bg_opacity > 0, and none when it is 0.
C7_BackgroundPlate ==
    mode # "none" =>
        \A g \in DOMAIN subtitle_clips :
            Clip(g).kind = "glyph" =>
                LET bg == LayersOf(Clip(g).cue, "background")
                IN  IF Get(settings, "bg_opacity", 14) > 0
                    THEN \E b \in bg :
                            /\ Clip(b).opacity = Get(settings, "bg_opacity", 14)
                            /\ Clip(b).start = Clip(g).start
                            /\ End(Clip(b)) = End(Clip(g))
                            /\ Clip(b).pos = Clip(g).pos
                    ELSE bg = {}

\* C8: in the composited list the layers of one cue stand back to front
\* as background-plate, shadow, glyph-text, and the glyph-text layer is
\* the front-most layer of its cue.
C8_StackOrder ==
    mode # "none" =>
        \A i, j \in DOMAIN subtitle_clips :
            (i # j /\ Clip(i).cue = Clip(j).cue) =>
                /\ (Clip(i).kind = "background" /\ Clip(j).kind = "shadow") => i < j
                /\ Clip(j).kind = "glyph" => i < j

\* C8 witness: two cues each composited as a shadow layer directly
\* beneath its glyph layer.
C8_Witness ==
    /\ mode # "none"
    /\ Len(subtitle_clips) = 4
    /\ \A k \in {1, 3} :
          /\ Clip(k).kind = "shadow" /\ Clip(k + 1).kind = "glyph"
          /\ Clip(k).cue = Clip(k + 1).cue

\* The shadow part of C9 for one emitted cue with glyph layer g.
ShadowAsSet(g) ==
    LET sh == LayersOf(Clip(g).cue, "shadow")
    IN  /\ sh # {} <=> ShadowRequested
        /\ \A k \in sh :
              /\ Clip(k).start = Clip(g).start
              /\ End(Clip(k)) = End(Clip(g))
              /\ Clip(k).opacity =
                    Max(6, OpacityScale - Get(settings, "shadow_blur", 3))

\* C9 (as claimed): for every emitted cue a shadow layer is emitted if and
\* only if shadow_enabled and one of the shadow offsets is non-zero, with
\* the glyph's start and end and opacity max(0.3, 1 - shadow_blur/20).
C9_ShadowIff ==
    mode # "none" =>
        \A g \in DOMAIN subtitle_clips :
            Clip(g).kind = "glyph" => ShadowAsSet(g)

\* C9 (amended): the same for every emitted cue whose styled layers were
\* built without error; a cue that fell back to the plain text layer has
\* no shadow layer.
C9_ShadowIffStyled ==
    mode # "none" =>
        \A g \in DOMAIN subtitle_clips :
            Clip(g).kind = "glyph" =>
                IF Clip(g).cue \in failing
                THEN LayersOf(Clip(g).cue, "shadow") = {}
                ELSE ShadowAsSet(g)

\* C9 witness: a shadow layer at the blur floor of 0.3 beside a cue that
\* fell back and has none.
C9_Witness ==
    /\ mode # "none"
    /\ ShadowRequested
    /\ \E k \in DOMAIN subtitle_clips :
          Clip(k).kind = "shadow" /\ Clip(k).opacity = 6
    /\ \E g \in DOMAIN subtitle_clips :
          /\ Clip(g).kind = "glyph" /\ Clip(g).cue \in failing
          /\ LayersOf(Clip(g).cue, "shadow") = {}

\* The shadow anchor of one axis: 'center' stays, a pixel count is
\* shifted by the offset of that axis.
ShiftedAxis(axis, offset) == IF axis.sym THEN Center ELSE Px(axis.px + offset)

\* C10: the shadow anchor is the glyph anchor axis by axis: a 'center'
\* axis stays 'center', a numeric axis becomes glyph value + the shadow
\* offset of that axis.
C10_ShadowAnchor ==
    mode # "none" =>
        \A k, g \in DOMAIN subtitle_clips :
            ( /\ Clip(k).kind = "shadow" /\ Clip(g).kind = "glyph"
              /\ Clip(k).cue = Clip(g).cue )
            => /\ Clip(k).pos[1] =
                    ShiftedAxis(Clip(g).pos[1], Get(settings, "shadow_offset_x", 2))
               /\ Clip(k).pos[2] =
                    ShiftedAxis(Clip(g).pos[2], Get(settings, "shadow_offset_y", 2))

\* C10 witness: a shadow under a glyph centred horizontally and anchored
\* in pixels vertically, shifted by a non-zero vertical offset.
C10_Witness ==
    /\ mode # "none"
    /\ Get(settings, "shadow_offset_y", 2) # 0
    /\ \E k, g \in DOMAIN subtitle_clips :
          /\ Clip(k).kind = "shadow" /\ Clip(g).kind = "glyph"
          /\ Clip(k).cue = Clip(g).cue
          /\ Clip(g).pos[1] = Center /\ ~Clip(g).pos[2].sym
          /\ Clip(k).pos[2].px # Clip(g).pos[2].px

----------------------------------------------------------------------------
(* Properties of the audio track, the handles and the output file *)

\* The audio is shorter than the bound B by a ratio above 1.5.
MuchShorter(B) == audio_file > 0 /\ 2 * B > 3 * audio_file

\* C11 (as claimed): for an audio clip of duration d and a bound B with
\* B/d > 1.5, adjust_audio_to_video completes without error and returns
\* audio of duration exactly B.
C11_LoopedToBound ==
    (adjusted.outcome # "none" /\ MuchShorter(video.duration)) =>
        /\ adjusted.outcome = "ok"
        /\ adjusted.clip.duration = video.duration

\* C12 (as claimed): in an export with an audio file shorter than the clip
\* by a ratio above 1.5, the merged audio is looped so that its duration
\* equals the clip duration.
C12_ExportAudioCovers ==
    (mode = "export" /\ run.outcome = "ok" /\ MuchShorter(video.duration)) =>
        /\ run.audio # <<>>
        /\ run.audio[1].duration = video.duration

\* C13 (as claimed): in both modes and for every signed audio_offset the
\* merged audio track lies within [0, bound]: start >= 0 and
\* start + duration <= bound.
C13_AudioWithinBound ==
    (mode # "none" /\ run.audio # <<>>) =>
        /\ run.audio[1].start >= 0
        /\ run.audio[1].start + run.audio[1].duration <= Bound

\* C14 (as claimed): when a handler raises, every media handle it opened
\* has been closed.
C14_HandlesClosedOnError ==
    run.outcome = "error" => run.opened \subseteq run.closed

\* C15 (as claimed): when export_final_video raises, no file exists at
\* the output path.
C15_NoOutputOnFailure ==
    (mode = "export" /\ run.outcome = "error") => "output.mp4" \notin run.files

\* C16 (as claimed): two invocations that overlap in time never work on
\* the same temporary file.
C16_PrivateTempFiles ==
    \A a, b \in inflight : a.id # b.id => a.temps \cap b.temps = {}

----------------------------------------------------------------------------
(* Properties of the parser *)

Supported == {"srt", "ass", "ssa", "vtt"}
HasParsed == parsed.outcome # "none"
FileFormat == Lower[subtitle_file.format]

\* The class of the error a parser raises for a file it cannot parse.
ParseErrorClass == ParseWith("parse_srt", [NoSubtitleFile EXCEPT !.readable = FALSE]).error[1].class

\* C17 (as claimed): parse_subtitle_file dispatches, ignoring case, srt to
\* the SRT parser, ass and ssa to the ASS parser and vtt to the VTT
\* parser; any other token fails with an UnsupportedFormatError, an error
\* of another class than a parse error, and returns no cues.
C17_DispatchAndUnsupported ==
    HasParsed =>
        /\ FileFormat = "srt" => parsed.parser = "parse_srt"
        /\ FileFormat \in {"ass", "ssa"} => parsed.parser = "parse_ass"
        /\ FileFormat = "vtt" => parsed.parser = "parse_vtt"
        /\ FileFormat \notin Supported =>
              /\ parsed.outcome = "error"
              /\ parsed.cues = <<>>
              /\ parsed.error[1].class # ParseErrorClass

\* The first thing that fails when the file is parsed, if anything does.
FirstFailure ==
    IF ~subtitle_file.readable THEN {ReadFailure}
    ELSE LET bad == {i \in DOMAIN subtitle_file.entries :
                        subtitle_file.entries[i].unconvertible}
         IN  IF bad = {} THEN {}
             ELSE {ConversionFailure(CHOOSE i \in bad : \A j \in bad : i <= j)}

\* C18: for all three formats, when reading the file or converting any
\* entry fails, the parser raises an error that carries the underlying
\* cause and the caller receives no cues, not even those converted before
\* the failure.
C18_AllOrNothing ==
    (HasParsed /\ FileFormat \in Supported /\ FirstFailure # {}) =>
        /\ parsed.outcome = "error"
        /\ parsed.cues = <<>>
        /\ parsed.error[1].cause \in FirstFailure

\* A parse that failed at the second entry, after a first entry had been
\* converted.
C18_Witness ==
    /\ HasParsed
    /\ FileFormat \in Supported
    /\ FirstFailure = {ConversionFailure(2)}
    /\ parsed.outcome = "error"

\* C19 (as claimed): for each format, parsing a file of K entries yields
\* exactly K cues in file order, each with end > start.
C19_CountOrderPositive ==
    (HasParsed /\ parsed.outcome = "ok") =>
        /\ Len(parsed.cues) = Len(subtitle_file.entries)
        /\ \A i \in DOMAIN parsed.cues :
              /\ parsed.cues[i].start = subtitle_file.entries[i].start * TicksPerMs
              /\ parsed.cues[i].text = JoinLines(subtitle_file.entries[i].lines)
              /\ parsed.cues[i].end > parsed.cues[i].start

----------------------------------------------------------------------------
(* Export and re-parse *)

Abs(n) == IF n < 0 THEN -n ELSE n
SingleLine(text) == \A k \in DOMAIN text : text[k] # "\n"

\* The exported file has been parsed.
Reparsed ==
    /\ srt_content # <<>>
    /\ subtitle_file = SrtFile(srt_content)
    /\ HasParsed
    /\ parsed = parse_subtitle_file(subtitle_file)

\* C20: for cues with single-line text, exporting them to SRT and parsing
\* the result with parse_srt gives as many cues, in the same order, with
\* the same text and with start and end within one millisecond of the
\* exported cue's.
C20_RoundTrip ==
    (Reparsed /\ \A i \in DOMAIN subtitles_data : SingleLine(subtitles_data[i].text)) =>
        /\ parsed.outcome = "ok"
        /\ Len(parsed.cues) = Len(subtitles_data)
        /\ \A i \in DOMAIN subtitles_data :
              /\ Abs(parsed.cues[i].start - subtitles_data[i].start) <= TicksPerMs
              /\ Abs(parsed.cues[i].end - subtitles_data[i].end) <= TicksPerMs
              /\ parsed.cues[i].text = subtitles_data[i].text

\* A cue past the first hour with times between two milliseconds has been
\* exported and parsed back, and its times came back changed.
C20_Witness ==
    /\ Reparsed
    /\ Len(subtitles_data) = 1
    /\ SingleLine(subtitles_data[1].text)
    /\ subtitles_data[1].start >= 3600 * TicksPerSecond
    /\ subtitles_data[1].start % TicksPerMs # 0
    /\ parsed.cues[1].start # subtitles_data[1].start

----------------------------------------------------------------------------
(* Properties of the text processor *)

RECURSIVE Flatten(_)
Flatten(seqs) == IF seqs = <<>> THEN <<>> ELSE Head(seqs) \o Flatten(Tail(seqs))

HasSplit == split_lines.outcome = "ok"

\* The words of a list of lines, in order.
WordsOfLines(ls) == Flatten([k \in DOMAIN ls |-> Words(ls[k])])

\* C21: split_long_text is the greedy packing of the words of the text:
\* the words of the lines, in order, are the words of the text; a line is
\* longer than the limit only if it is a single word; and the first word
\* of a line would not have fitted, after a space, on the line before.
C21_GreedyPacking ==
    HasSplit =>
        LET ls == split_lines.value
        IN  /\ WordsOfLines(ls) = Words(subtitle_text)
            /\ \A k \in DOMAIN ls :
                  /\ ls[k] # <<>>
                  /\ Len(ls[k]) <= max_width \/ Len(Words(ls[k])) = 1
            /\ \A k \in DOMAIN ls :
                  k > 1 => Len(ls[k - 1]) + 1 + Len(Words(ls[k])[1]) > max_width
            /\ \A k \in DOMAIN ls :
                  ls[k] = Strip(CollapseWhitespace(ls[k]))

\* A text was split into a line of two words that exactly fills the limit
\* and a line with one word longer than the limit.
C21_Witness ==
    /\ HasSplit
    /\ Len(split_lines.value) = 2
    /\ Len(Words(split_lines.value[1])) = 2
    /\ Len(split_lines.value[1]) = max_width
    /\ Len(split_lines.value[2]) > max_width

HasFormatted == formatted.outcome # "none"

\* What a piece of text comes back as: shaped, or as it was when the
\* shaper raises for it.
Piece(str) ==
    IF ShapingRaises(clean_text(str), shaper) THEN str
    ELSE get_display(reshape(clean_text(str)))

\* C22: format_subtitle_text returns a string for every text, with or
\* without max_width, whatever the shaper does; a piece of text whose
\* shaping fails comes back unprocessed.
C22_NeverRaises ==
    HasFormatted =>
        /\ formatted.outcome = "ok"
        /\ max_width = 0 => formatted.value = Piece(subtitle_text)
        /\ max_width # 0 =>
              LET split == split_long_text(subtitle_text, max_width)
              IN  formatted.value = JoinNewline([k \in DOMAIN split |-> Piece(split[k])])

\* A text of two lines was formatted while the shaper raised for both.
C22_Witness ==
    /\ HasFormatted
    /\ shaper # "ok"
    /\ max_width # 0
    /\ Len(split_long_text(subtitle_text, max_width)) = 2
    /\ \A k \in {1, 2} :
          ShapingRaises(clean_text(split_long_text(subtitle_text, max_width)[k]), shaper)
    /\ formatted.outcome = "ok"

PureLatin(str) == ~IsArabic(str)

\* C23 (as claimed): for every pure-Latin text, with tags and irregular
\* whitespace or not, and every fixed max_width or none, formatting the
\* formatted text again changes nothing.
C23_Idempotent ==
    (HasFormatted /\ formatted.outcome = "ok" /\ PureLatin(subtitle_text)) =>
        format_subtitle_text(formatted.value, max_width, shaper).value
            = formatted.value

\* C26 (as claimed): with a max_width, the formatted text holds no markup
\* tag and its lines are the shaped lines of the greedy wrap of the
\* cleaned text.
C26_CleanBeforeWrap ==
    (HasFormatted /\ max_width # 0 /\ shaper = "ok") =>
        LET wrapped == split_long_text(clean_text(subtitle_text), max_width)
        IN  /\ RemoveTags(formatted.value) = formatted.value
            /\ formatted.value =
                  JoinNewline([k \in DOMAIN wrapped |->
                                  get_display(reshape(wrapped[k]))])

----------------------------------------------------------------------------
(* A cue whose styled build fails *)

\* The layers of the composited list that belong to one cue.
AllLayersOf(c) == {i \in DOMAIN subtitle_clips : subtitle_clips[i].cue = c}

\* C24: a failure while building the styled layers of one cue never aborts
\* the run: the run returns, every cue with a non-empty window is emitted,
\* and a cue whose styled build failed is a single unstyled glyph layer
\* with the windowed start and end, without shadow or background.
C24_FailingCueNeverAborts ==
    (mode \in {"preview", "export"} /\ fault \in {"none", "fallback"}) =>
        /\ run.outcome = "ok"
        /\ \A c \in Cues :
              LET s == Max(0, c.start + Offset)
                  e == Min(c.end + Offset, Bound)
              IN  (s < Bound /\ e > s) =>
                      /\ Emitted(c.index)
                      /\ c.index \in failing =>
                            /\ Cardinality(AllLayersOf(c.index)) = 1
                            /\ \A i \in AllLayersOf(c.index) :
                                  /\ subtitle_clips[i].kind = "glyph"
                                  /\ ~subtitle_clips[i].styled
                                  /\ subtitle_clips[i].start = s
                                  /\ End(subtitle_clips[i]) = e

----------------------------------------------------------------------------
(* The resize step of the export *)

\* C25: when the export resizes to a target height, the width and the
\* height of the resized clip are both even and their ratio is the
\* source's aspect ratio up to the rounding of one pixel of width.
C25_ResizedEvenAndProportional ==
    (mode = "export" /\ resized_clip # <<>>) =>
        LET clip == resized_clip[1]
        IN  /\ clip.w % 2 = 0
            /\ clip.h % 2 = 0
            /\ clip.w * video.h - clip.h * video.w <= video.h
            /\ clip.h * video.w - clip.w * video.h <= video.h

----------------------------------------------------------------------------
(* The editor's save button *)

\* C27: after any sequence of editor saves every cue ends after it starts
\* (a save whose new end is not after its new start leaves the cue as it
\* was).
C27_SavedCuesEndAfterStart ==
    \A k \in DOMAIN subtitles_data :
        subtitles_data[k].end > subtitles_data[k].start

----------------------------------------------------------------------------
(* The cue list across runs *)

\* Every layer of a composited list starts at its cue's start in the cue
\* list moved once by the offset (and not below zero).
ShiftedOnce(clips, subs) ==
    \A i \in DOMAIN clips :
        \E k \in DOMAIN subs :
            /\ subs[k].index = clips[i].cue
            /\ clips[i].start = Max(0, subs[k].start + Offset)

\* C28: apply_subtitles leaves the cue list it is given unchanged, so each
\* run applies the offset exactly once to the cue times as given, and a
\* run repeated in the same mode with the same failing cues emits the
\* same layers.
C28_CueListUnchanged ==
    [][/\ subtitles_data' = subtitles_data
       /\ ShiftedOnce(subtitle_clips', subtitles_data)
       /\ (mode # "none" /\ mode' = mode /\ failing' = failing)
              => subtitle_clips' = subtitle_clips]_vars

\* C28 witness: after a run under a non-zero offset a cue was emitted at
\* its start moved by the offset while the cue list still holds the start
\* as given.
C28_Witness ==
    /\ mode # "none"
    /\ Offset # 0
    /\ \E i \in DOMAIN subtitle_clips, k \in DOMAIN subtitles_data :
          /\ subtitles_data[k].index = subtitle_clips[i].cue
          /\ subtitle_clips[i].start = subtitles_data[k].start + Offset
          /\ subtitle_clips[i].start # subtitles_data[k].start

----------------------------------------------------------------------------
(* The order of closing and consuming *)

\* C29: in create_preview, export_final_video and trim_video no media
\* handle is closed while a clip that reads from it is yet to be used: no
\* handle the encode step (or the caller of trim_video) reads from was
\* closed before that step started.
C29_NoHandleClosedBeforeUse ==
    mode \in {"preview", "export", "trim"} => run.reads \cap run.early = {}

----------------------------------------------------------------------------
(* Preview against export *)

\* The layers of a composited list that start before H, cut at H.
StartsBefore(H, c) == c.start < H

RestrictedTo(clips, H) ==
    LET before == SelectSeq(clips, LAMBDA c : StartsBefore(H, c))
    IN  [i \in DOMAIN before |->
            [before[i] EXCEPT !.duration = Min(End(before[i]), H) - before[i].start]]

\* C30: for a video at least as long as the preview horizon H, the layers
\* of the preview are exactly the layers of the export of the same cues
\* and settings that start before H, each ending at the smaller of its
\* export end and H.
C30_PreviewIsExportRestricted ==
    (mode = "preview" /\ video.duration >= preview_duration) =>
        subtitle_clips =
            RestrictedTo(apply_subtitles(video, subtitles_data, settings,
                                         FALSE, 0, failing).clips,
                         preview_duration)
====
